---- MODULE Spec2Model ----
(***************************************************************************)
(* The forecast engine of the Aequitas LV-COP backend:                     *)
(*   app/ml/forecasting/engine.py  (ForecastEngine)                        *)
(*   app/ml/forecasting/models.py  (SteadyStateModel, CrisisModel)         *)
(*   app/core/constants.py         (threshold and multiplier tables)       *)
(*   app/services/forecast_service.py (ForecastService.generate_forecast)  *)
(*                                                                         *)
(* Numbers.  Python floats are modelled as exact rationals on fixed grids: *)
(*   - a money amount is an integer number of 1/32 cent ("ticks"); every   *)
(*     product the two demo generators form from draws given in hundredths *)
(*     is exact at that resolution;                                        *)
(*   - a value rounded to 2 decimals (a Decimal of predict) is an integer  *)
(*     number of cents;                                                    *)
(*   - a confidence is an integer number of 1/10000;                       *)
(*   - a blend weight is an integer number of 1/100;                       *)
(*   - a standard-normal draw is an integer number of 1/100.               *)
(***************************************************************************)
EXTENDS Integers, Sequences, FiniteSets, TLC

\* ------------------------------------------------------------------ bounds
\* calendar days the model runs through: today ranges over 0..MaxDay
MaxDay == 1
\* largest number of distinct transaction dates handed to train_on_data
MaxDates == 38
\* largest number of fits (scaler + estimators) one run starts
MaxFits == 2
\* largest number of callers whose call is scheduled and has not started
MaxCallers == 2
\* largest n_simulations handed to simulate_monte_carlo
MaxSims == 2

\* ------------------------------------------------------- float arithmetic
Dollar == 100 * 32
Cent == Dollar \div 100

Abs(x) == IF x < 0 THEN -x ELSE x
Max(a, b) == IF a >= b THEN a ELSE b
Min(a, b) == IF a <= b THEN a ELSE b

\* x * n / d  (d > 0), formed without the intermediate product x * n
MulFrac(x, n, d) == (x \div d) * n + ((x % d) * n) \div d

\* round(), to the nearest integer of whole + num/den, ties to even
\* (0 <= num, den > 0)
RoundHalfEven(whole, num, den) ==
    LET q == whole + (num \div den)
        r == num % den
    IN  IF 2 * r < den THEN q
        ELSE IF 2 * r > den THEN q + 1
        ELSE IF q % 2 = 0 THEN q ELSE q + 1

\* round(x, 2) of an amount in ticks: the nearest whole number of cents
Round2(x) == RoundHalfEven(x \div Cent, x % Cent, Cent)

\* dict.get(key, default)
Get(d, key, default) == IF key \in DOMAIN d THEN d[key] ELSE default

\* ----------------------------------------------------------- app.core.enums
Regime == {"steady_state", "elevated", "crisis"}

\* What a caller can pass as `regime`: a Regime member, or a value that is no
\* Regime member: a plain str (no .value attribute, hashes and compares as its
\* text), None, or a member of another str-Enum such as Role.ADMIN.
RegimeArgs ==
    [kind : {"Regime"}, value : Regime]
    \cup [kind : {"str"}, value : {"unknown"}]
    \cup [kind : {"NoneType"}, value : {"None"}]
    \cup [kind : {"Role"}, value : {"admin"}]

\* getattr(regime, "value") exists: Enum members only
HasValueAttr(regime) == regime.kind \in {"Regime", "Role"}

\* A dict keyed by Regime members finds `regime`: Regime mixes in str, so a
\* member hashes and compares as its value, and so does an equal plain str.
RegimeKey(regime) ==
    IF regime.kind \in {"Regime", "Role", "str"} /\ regime.value \in Regime
    THEN regime.value
    ELSE "no_entry"

\* ------------------------------------------------------ app.core.constants
\* The module-level names of app/core/constants.py that the engine could
\* import for regime detection and shocks (the thresholds in whole points and
\* whole basis points).
ConstantsModule ==
    [ VIX_STEADY_STATE_MAX |-> 25, VIX_ELEVATED_MIN |-> 25,
      VIX_ELEVATED_MAX |-> 40, VIX_CRISIS_MIN |-> 40,
      CREDIT_SPREAD_STEADY_STATE_MAX |-> 150, CREDIT_SPREAD_ELEVATED_MIN |-> 150,
      CREDIT_SPREAD_ELEVATED_MAX |-> 200, CREDIT_SPREAD_CRISIS_MIN |-> 200,
      CRISIS_SHOCK_MULTIPLIERS |->
          [steady_state |-> 10, elevated |-> 15, crisis |-> 25],
      VOLATILITY_SCALING |->
          [steady_state |-> 100, elevated |-> 125, crisis |-> 200] ]

\* `from app.core.constants import <names>` succeeds
CanImport(names) == names \subseteq DOMAIN ConstantsModule

\* shock multipliers in tenths, volatility scaling in hundredths
CRISIS_SHOCK_MULTIPLIERS == ConstantsModule.CRISIS_SHOCK_MULTIPLIERS
VOLATILITY_SCALING == ConstantsModule.VOLATILITY_SCALING

\* ------------------------------------------------------------ the state
VARIABLES
    today,        \* the calendar day, 0..MaxDay (date.today())
    rng,          \* numpy's process-wide generator: the last seed, draws since
    engine,       \* the ForecastEngine: steady_state_model, crisis_model, is_loaded
    importable,   \* xgboost and scikit-learn can be imported in this process
    fits,         \* fits started so far (completed or raised)
    ret,          \* the last call: operation, arguments, outcome
    pending,      \* calls made while the engine was not loaded yet that the
                  \* event loop has not started
    caller,       \* what the caller whose call ran last saw when it called
    demo_today    \* the first demo-mode steady-state prediction made today

vars == <<today, rng, engine, importable, fits, ret, pending, caller, demo_today>>

\* ---------------------------------------------------------- numpy.random
\* The first standard-normal draws, in hundredths, that np.random.normal
\* returns after np.random.seed(seed) (legacy MT19937 generator), for the
\* seeds of the modelled days and for the seed of simulate_monte_carlo.
standard_normal(seed) ==
    CASE seed = 42 -> <<50, -14, 65, 152, -23, -23, 158, 77, -47, 54, -46, -47>>
      [] seed = 78 -> <<12, -30, 58, 58, -6, 51, -52>>
      [] seed = 79 -> <<-332, 7, -119, 0, -54, 97, 62>>
      [] seed = 80 -> <<190, 21, 90, -118, 27, 60, -66>>
      [] seed = 81 -> <<-136, -124, 6, -165, 2, -3, -119>>
      [] seed = 82 -> <<84, -136, 129, 57, 58, -3, -38>>
      [] seed = 83 -> <<85, -112, 114, 67, -46, 106, 143>>
      [] seed = 84 -> <<-13, -46, 66, -133, -54, -73, -103>>
      [] seed = 85 -> <<18, 238, 100, -131, 18, -176, -144>>
      [] seed = 86 -> <<-60, -61, 46, -62, 69, -115, -158>>
      [] seed = 87 -> <<37, 13, 53, -37, 175, 38, 19>>
      [] seed = 88 -> <<11, 221, 96, 7, 107, 100, -93>>

\* date.today().toordinal() on day `day` of the run; day 0 is 2027-04-07
toordinal(day) == 740 * 1000 + 78 + day

\* the process-wide generator after np.random.seed(s) and `n` draws
Seeded(s, n) == [seed |-> s, drawn |-> n]

\* the k-th standard-normal draw taken from the generator in state g
Draw(g, k) == standard_normal(g.seed)[g.drawn + k]

\* ------------------------------------------------- models.SteadyStateModel
None == [class |-> "NoneType"]

\* SteadyStateModel(): the state __init__ leaves.  scaler is the number of
\* the fit that produced it (0: None; negative: a StandardScaler that was
\* never fitted), quantile_models maps a quantile, in
\* percent, to the number of the fit that produced its estimator.
SteadyStateModel_init ==
    [ class |-> "SteadyStateModel",
      is_loaded |-> FALSE,
      scaler |-> 0,
      quantile_models |-> <<>>,
      feature_names |-> "none",
      demo_mode |-> TRUE ]

\* the column sets a feature frame can have: the eleven columns that
\* _engineer_features builds from 7 or more dates, or eleven other ones
Columns == {"engineered", "other"}

\* What a train call's data does to the fit: nothing ("none"); X holds a
\* value StandardScaler rejects, such as inf, so fit_transform raises at
\* line 95 ("fit_transform"); y has not as many values as X has rows, so the
\* first XGBRegressor.fit raises at line 114 ("fit").  Both exceptions are
\* ValueErrors (XGBoostError is one).
Faults == {"none", "fit_transform", "fit"}

\* train(X, y, quantiles); can_import: xgboost and scikit-learn import;
\* `fit` is the number of this fit.  [model, outcome, exc, value]: the model
\* after the call and the dict returned or the exception raised.  Only
\* ImportError is handled (line 128); lines 93 and 94 have replaced
\* feature_names and scaler when a later line raises, the scaler being the
\* new StandardScaler, not fitted (-fit) if fit_transform raised.
SteadyStateModel_train(m, columns, quantiles, fit, can_import, fault) ==
    IF ~can_import
    THEN [ model |-> [m EXCEPT !.demo_mode = TRUE],
           outcome |-> "returned", exc |-> "",
           value |-> [status |-> "demo_mode"] ]
    ELSE IF fault = "fit_transform"
    THEN [ model |-> [m EXCEPT !.feature_names = columns, !.scaler = 0 - fit],
           outcome |-> "raised", exc |-> "ValueError", value |-> None ]
    ELSE IF fault = "fit"
    THEN [ model |-> [m EXCEPT !.feature_names = columns, !.scaler = fit],
           outcome |-> "raised", exc |-> "ValueError", value |-> None ]
    ELSE [ model |->
             [m EXCEPT !.feature_names = columns,
                       !.scaler = fit,
                       !.quantile_models =
                           [q \in (DOMAIN m.quantile_models) \cup quantiles |->
                               IF q \in quantiles THEN fit
                               ELSE m.quantile_models[q]],
                       !.is_loaded = TRUE,
                       !.demo_mode = FALSE],
           outcome |-> "returned", exc |-> "",
           value |-> [metrics |-> quantiles] ]

\* lines 170-191 of _generate_realistic_prediction: four normal draws from
\* the generator in state g, and the dict built from them
DemoPrediction(g) ==
    LET base_flow == 50000 * Dollar + 200 * Dollar * Draw(g, 1)
        \* volatility in 1/10000: abs(0.25 + 0.08 z)
        volatility == Abs(2500 + 8 * Draw(g, 2))
        p50 == base_flow
        p5 == MulFrac(p50, 10000 - 2 * volatility, 10000)
        p95 == MulFrac(p50, 10000 + 2 * volatility, 10000)
        \* abs(0.5 + 0.2 z) in 1/1000
        inflow == Max(0, MulFrac(p50, 1000 + Abs(500 + 2 * Draw(g, 3)), 1000))
        outflow == Max(0, inflow - p50)
        confidence == Max(5500, Min(9200, 7500 + 10 * Draw(g, 4)))
    IN  [ p5 |-> Round2(p5) * Cent,
          p50 |-> Round2(p50) * Cent,
          p95 |-> Round2(p95) * Cent,
          inflow_p50 |-> Round2(inflow) * Cent,
          outflow_p50 |-> Round2(outflow) * Cent,
          confidence |-> confidence ]

\* _generate_realistic_prediction seeding the generator only if nothing has
\* seeded it in this process yet
_generate_realistic_prediction_seed_once(ordinal) ==
    DemoPrediction(IF rng.seed < 0 THEN Seeded(ordinal % 1000, 0) ELSE rng)

\* _generate_realistic_prediction() on the day whose ordinal is `ordinal`:
\* line 167 reseeds the generator with the day, then the draws are taken
_generate_realistic_prediction(ordinal) ==
    DemoPrediction(Seeded(ordinal % 1000, 0))

\* the generator after _generate_realistic_prediction
RngAfterSteadyDemo(ordinal) == Seeded(ordinal % 1000, 4)

\* _calculate_confidence(predictions)
_calculate_confidence(predictions) ==
    LET p95 == Get(predictions, "p95", 0)
        p5 == Get(predictions, "p5", 0)
        p50 == Get(predictions, "p50", Dollar)
        width == Abs(p95 - p5)
        denom == Max(Abs(p50), Dollar)
    IN  IF p50 = 0 THEN 5000
        ELSE Max(3000, Min(9500, 10000 - MulFrac(width, 3000, denom)))

\* f"p{int(q * 100)}" for a quantile given in percent
QuantileKey(q) ==
    CASE q = 5 -> "p5" [] q = 25 -> "p25" [] q = 50 -> "p50"
      [] q = 75 -> "p75" [] q = 95 -> "p95"

\* what a fitted estimator can answer (ticks): -5.00, 0.00 and 10.00
EstimatorOutputs == {0 - 5 * Dollar, 0, 10 * Dollar}

\* the try-block of predict: `outputs` maps each stored quantile to the
\* mean its estimator predicts
TrainedInference(m, outputs) ==
    LET keys == {QuantileKey(q) : q \in DOMAIN m.quantile_models}
        predictions ==
            [k \in keys |->
                outputs[CHOOSE q \in DOMAIN m.quantile_models : QuantileKey(q) = k]]
    IN  [k \in keys \cup {"confidence"} |->
            IF k = "confidence" THEN _calculate_confidence(predictions)
            ELSE predictions[k]]

\* predict(X) with the `except Exception` handler of lines 157-159 removed
SteadyStateModel_predict_reraise(m, X, outputs, ordinal) ==
    IF m.demo_mode \/ ~m.is_loaded
    THEN [outcome |-> "returned", exc |-> "",
          value |-> _generate_realistic_prediction(ordinal), demo |-> TRUE]
    ELSE IF X = None
    THEN [outcome |-> "returned", exc |-> "",
          value |-> _generate_realistic_prediction(ordinal), demo |-> TRUE]
    ELSE IF X.columns # m.feature_names \/ m.scaler < 0
    THEN [outcome |-> "raised", exc |-> "ValueError", value |-> None,
          demo |-> FALSE]
    ELSE [outcome |-> "returned", exc |-> "",
          value |-> TrainedInference(m, outputs), demo |-> FALSE]

\* predict(X) answering with the demo generator in every case, the stored
\* estimators never consulted
SteadyStateModel_predict_demo_only(m, X, outputs, ordinal) ==
    [outcome |-> "returned", exc |-> "",
     value |-> _generate_realistic_prediction(ordinal), demo |-> TRUE]

\* predict(X).  X is None or a frame with columns X.columns; scaler.transform
\* raises when the frame's columns are not those the scaler was fitted on
\* (ValueError) or the scaler was never fitted (NotFittedError, a ValueError),
\* and the handler of lines 157-159 answers with the demo generator.
\* [outcome, exc, value, demo]: the dict returned and whether the demo
\* generator made it.
SteadyStateModel_predict(m, X, outputs, ordinal) ==
    IF m.demo_mode \/ ~m.is_loaded
    THEN [outcome |-> "returned", exc |-> "",
          value |-> _generate_realistic_prediction(ordinal), demo |-> TRUE]
    ELSE IF X = None
    THEN [outcome |-> "returned", exc |-> "",
          value |-> _generate_realistic_prediction(ordinal), demo |-> TRUE]
    ELSE IF X.columns # m.feature_names \/ m.scaler < 0
    THEN [outcome |-> "returned", exc |-> "",
          value |-> _generate_realistic_prediction(ordinal), demo |-> TRUE]
    ELSE [outcome |-> "returned", exc |-> "",
          value |-> TrainedInference(m, outputs), demo |-> FALSE]

\* ------------------------------------------------------ models.CrisisModel
CrisisModel_init ==
    [ class |-> "CrisisModel",
      shock_multipliers |-> CRISIS_SHOCK_MULTIPLIERS,
      volatility_scaling |-> VOLATILITY_SCALING ]

\* _get_base_prediction(X): reseeds the generator with the day's seed + 1 and
\* takes three normal draws
_get_base_prediction(ordinal) ==
    LET g == Seeded((ordinal % 1000) + 1, 0)
        base == 35000 * Dollar + 150 * Dollar * Draw(g, 1)
        \* vol in 1/1000: abs(0.35 + 0.1 z)
        vol == Abs(350 + Draw(g, 2))
    IN  [ p5 |-> MulFrac(base, 10000 - 25 * vol, 10000),
          p50 |-> base,
          p95 |-> MulFrac(base, 10000 + 25 * vol, 10000),
          inflow_p50 |-> Max(0, MulFrac(base, 13, 10)),
          outflow_p50 |-> Max(0, MulFrac(base, 3, 10)),
          confidence |-> Max(4000, Min(7500, 6000 + 10 * Draw(g, 3))) ]

RngAfterCrisis(ordinal) == Seeded((ordinal % 1000) + 1, 3)

\* the shocks of predict with the confidence multiplied by vol_scale
ApplyShock_confidence_scaled(cm, base_pred, regime) ==
    LET shock_mult == Get(cm.shock_multipliers, regime.value, 10)
        vol_scale == Get(cm.volatility_scaling, regime.value, 100)
    IN  [ p5 |-> MulFrac(MulFrac(MulFrac(base_pred.p5, shock_mult, 10),
                                 vol_scale, 100), 15, 10),
          p50 |-> MulFrac(base_pred.p50, shock_mult, 10),
          p95 |-> MulFrac(MulFrac(base_pred.p95, shock_mult, 10), 100, vol_scale),
          inflow_p50 |->
              MulFrac(MulFrac(Get(base_pred, "inflow_p50", 0), shock_mult, 10), 7, 10),
          outflow_p50 |->
              MulFrac(MulFrac(Get(base_pred, "outflow_p50", 0), vol_scale, 100), 13, 10),
          confidence |-> MulFrac(base_pred.confidence, vol_scale, 100) ]

\* the shocks of predict applied to a base prediction, for a regime argument
\* that has a .value
ApplyShock(cm, base_pred, regime) ==
    LET shock_mult == Get(cm.shock_multipliers, regime.value, 10)
        vol_scale == Get(cm.volatility_scaling, regime.value, 100)
    IN  [ p5 |-> MulFrac(MulFrac(MulFrac(base_pred.p5, shock_mult, 10),
                                 vol_scale, 100), 15, 10),
          p50 |-> MulFrac(base_pred.p50, shock_mult, 10),
          p95 |-> MulFrac(MulFrac(base_pred.p95, shock_mult, 10), 100, vol_scale),
          inflow_p50 |->
              MulFrac(MulFrac(Get(base_pred, "inflow_p50", 0), shock_mult, 10), 7, 10),
          outflow_p50 |->
              MulFrac(MulFrac(Get(base_pred, "outflow_p50", 0), vol_scale, 100), 13, 10),
          confidence |-> MulFrac(base_pred.confidence, 100, vol_scale) ]

\* predict(X, regime): [outcome, exc, value]
CrisisModel_predict(cm, regime, ordinal) ==
    IF ~HasValueAttr(regime)
    THEN [outcome |-> "raised", exc |-> "AttributeError", value |-> None]
    ELSE [ outcome |-> "returned", exc |-> "",
           value |-> ApplyShock(cm, _get_base_prediction(ordinal), regime) ]

\* ------------------------------------------------- engine.ForecastEngine
\* ForecastEngine()
ForecastEngine_init ==
    [steady_state_model |-> None, crisis_model |-> None, is_loaded |-> FALSE]

\* load_models() without the early return of lines 44-45
Loaded_every_call(e) ==
    [ steady_state_model |-> SteadyStateModel_init,
      crisis_model |-> CrisisModel_init,
      is_loaded |-> TRUE ]

\* the engine after load_models()
Loaded(e) ==
    IF e.is_loaded THEN e
    ELSE [ steady_state_model |-> SteadyStateModel_init,
           crisis_model |-> CrisisModel_init,
           is_loaded |-> TRUE ]

\* _get_regime_weights with a default entry that does not sum to 1
_get_regime_weights_unnormalised(regime) ==
    LET weights == [ steady_state |-> <<90, 10>>,
                     elevated |-> <<60, 40>>,
                     crisis |-> <<20, 80>> ]
    IN  Get(weights, RegimeKey(regime), <<85, 25>>)

\* _get_regime_weights(regime): (steady_weight, crisis_weight) in hundredths
_get_regime_weights(regime) ==
    LET weights == [ steady_state |-> <<90, 10>>,
                     elevated |-> <<60, 40>>,
                     crisis |-> <<20, 80>> ]
    IN  Get(weights, RegimeKey(regime), <<85, 15>>)

\* a * wa + b * wb for weights in hundredths, as the exact rational
\* whole + num/den in units of `unit` (a and b being multiples of 1/unit)
WeightedSum(a, wa, b, wb, unit) ==
    LET den == 100 * unit
        rest == (a % den) * wa + (b % den) * wb
    IN  [ whole |-> (a \div den) * wa + (b \div den) * wb + (rest \div den),
          num |-> rest % den,
          den |-> den ]

\* _blend_predictions weighting the quantiles of both models by steady_weight
_blend_predictions_one_weight(steady_pred, crisis_pred, steady_weight, crisis_weight) ==
    LET inflow == IF "inflow_p50" \in DOMAIN steady_pred
                     \/ "inflow_p50" \in DOMAIN crisis_pred
                  THEN {"inflow_p50"} ELSE {}
        outflow == IF "outflow_p50" \in DOMAIN steady_pred
                      \/ "outflow_p50" \in DOMAIN crisis_pred
                   THEN {"outflow_p50"} ELSE {}
    IN  [ key \in {"p5", "p50", "p95", "confidence"} \cup inflow \cup outflow |->
            IF key = "confidence"
            THEN WeightedSum(Get(steady_pred, key, 7500), steady_weight,
                             Get(crisis_pred, key, 6000), crisis_weight, 1)
            ELSE IF key \in {"p5", "p50", "p95"}
            THEN WeightedSum(Get(steady_pred, key, 0), steady_weight,
                             Get(crisis_pred, key, 0), steady_weight, Cent)
            ELSE WeightedSum(Get(steady_pred, key, 0), steady_weight,
                             Get(crisis_pred, key, 0), crisis_weight, Cent) ]

\* _blend_predictions(steady_pred, crisis_pred, steady_weight, crisis_weight):
\* amounts in cents, confidence in 1/10000, each an exact rational
_blend_predictions(steady_pred, crisis_pred, steady_weight, crisis_weight) ==
    LET inflow == IF "inflow_p50" \in DOMAIN steady_pred
                     \/ "inflow_p50" \in DOMAIN crisis_pred
                  THEN {"inflow_p50"} ELSE {}
        outflow == IF "outflow_p50" \in DOMAIN steady_pred
                      \/ "outflow_p50" \in DOMAIN crisis_pred
                   THEN {"outflow_p50"} ELSE {}
    IN  [ key \in {"p5", "p50", "p95", "confidence"} \cup inflow \cup outflow |->
            IF key = "confidence"
            THEN WeightedSum(Get(steady_pred, key, 7500), steady_weight,
                             Get(crisis_pred, key, 6000), crisis_weight, 1)
            ELSE WeightedSum(Get(steady_pred, key, 0), steady_weight,
                             Get(crisis_pred, key, 0), crisis_weight, Cent) ]

\* round(v, n) of an exact rational, and of the default of blended.get
Rounded(v) == RoundHalfEven(v.whole, v.num, v.den)

\* the dict predict returns: Decimals in cents, weights in hundredths,
\* confidence in 1/10000
PredictionDict(blended, steady_weight, crisis_weight) ==
    [ p5 |-> Rounded(blended["p5"]),
      p50 |-> Rounded(blended["p50"]),
      p95 |-> Rounded(blended["p95"]),
      inflow_p50 |-> IF "inflow_p50" \in DOMAIN blended
                     THEN Rounded(blended["inflow_p50"]) ELSE 0,
      outflow_p50 |-> IF "outflow_p50" \in DOMAIN blended
                      THEN Rounded(blended["outflow_p50"]) ELSE 0,
      steady_state_weight |-> steady_weight,
      crisis_weight |-> crisis_weight,
      confidence |-> IF "confidence" \in DOMAIN blended
                     THEN Rounded(blended["confidence"]) ELSE 7500,
      model_name |-> "hybrid",
      model_version |-> "1.0" ]

\* the record kept of a call
Call(op, args, outcome, exc, value, calls) ==
    [op |-> op, args |-> args, outcome |-> outcome, exc |-> exc,
     value |-> value, calls |-> calls]

\* no call is in progress and the last result has been taken
NoCall == Call("none", <<>>, "returned", "", None, <<>>)
Idle == ret = NoCall

\* A caller calls a method of forecast_engine before the engine is loaded:
\* the coroutine is created and scheduled; its body has not started.
call_soon ==
    /\ ~engine.is_loaded
    /\ pending < MaxCallers
    /\ pending' = pending + 1
    /\ UNCHANGED <<today, rng, engine, importable, fits, ret, caller, demo_today>>

\* The event loop starts a call: the scheduled calls first (its ready queue
\* is first-in first-out), then calls as they are made.  No method of the
\* engine holds an await that suspends (load_models, the only coroutine
\* awaited, has none), so the body then runs to its return or raise as one
\* step.
start ==
    IF pending > 0
    THEN /\ pending' = pending - 1
         /\ caller' = [saw_loaded |-> FALSE]
    ELSE /\ pending' = pending
         /\ caller' = [saw_loaded |-> engine.is_loaded]

\* feature arguments of predict: None or a frame with one of the column sets
FeatureArgs == {None} \cup [class : {"DataFrame"}, columns : Columns]

\* load_models()
load_models ==
    /\ Idle
    /\ start
    /\ engine' = Loaded(engine)
    /\ ret' = Call("load_models", <<>>, "returned", "", None, <<>>)
    /\ UNCHANGED <<today, rng, importable, fits, demo_today>>

\* predict(features, regime, target_date, horizon_days); `outputs` is what the
\* stored estimators answer for these features.  target_date and horizon_days
\* are read nowhere in the body.
predict(features, regime, horizon_days, outputs) ==
    LET e == Loaded(engine)
        ordinal == toordinal(today)
        w == _get_regime_weights(regime)
        steady == SteadyStateModel_predict(e.steady_state_model, features,
                                           outputs, ordinal)
        crisis == CrisisModel_predict(e.crisis_model, regime, ordinal)
        args == [features |-> features, regime |-> regime,
                 horizon_days |-> horizon_days]
        calls == [steady_weight |-> w[1], crisis_weight |-> w[2],
                  steady_pred |-> steady.value, steady_demo |-> steady.demo,
                  steady_repeat |-> steady.demo /\ demo_today # None,
                  crisis_pred |-> crisis.value, outputs |-> outputs]
    IN  /\ Idle
        /\ start
        /\ engine' = e
        /\ rng' = IF steady.outcome = "raised" THEN rng ELSE RngAfterCrisis(ordinal)
        /\ ret' = IF steady.outcome = "raised"
                  THEN Call("predict", args, "raised", steady.exc, None, calls)
                  ELSE IF crisis.outcome = "raised"
                  THEN Call("predict", args, "raised", crisis.exc, None, calls)
                  ELSE Call("predict", args, "returned", "",
                            PredictionDict(
                                _blend_predictions(steady.value, crisis.value,
                                                   w[1], w[2]),
                                w[1], w[2]),
                            calls)
        /\ demo_today' = IF steady.demo /\ demo_today = None
                         THEN steady.value ELSE demo_today
        /\ UNCHANGED <<today, importable, fits>>

\* what the estimators for p5, p50 and p95 answer together for one frame:
\* increasing, crossing (decreasing), all zero, all equal
EstimatorAnswers ==
    { (5 :> 0 - 5 * Dollar) @@ (50 :> 0) @@ (95 :> 10 * Dollar),
      (5 :> 10 * Dollar) @@ (50 :> 0 - 5 * Dollar) @@ (95 :> 0 - 5 * Dollar),
      (5 :> 0) @@ (50 :> 0) @@ (95 :> 0),
      (5 :> 10 * Dollar) @@ (50 :> 10 * Dollar) @@ (95 :> 10 * Dollar) }

\* the answers the stored estimators can give for `features`; none are asked
\* when predict does not reach them
OutputsOf(e, features) ==
    IF e.steady_state_model = None \/ features = None THEN {<<>>}
    ELSE IF e.steady_state_model.demo_mode
            \/ features.columns # e.steady_state_model.feature_names
            \/ e.steady_state_model.scaler < 0
    THEN {<<>>}
    ELSE { [q \in DOMAIN e.steady_state_model.quantile_models |-> answers[q]] :
               answers \in EstimatorAnswers }

\* horizon_days arguments: the default and a negative one
HorizonArgs == {0 - 1, 1}

Predict ==
    \E features \in FeatureArgs, regime \in RegimeArgs,
       horizon_days \in HorizonArgs :
        \E outputs \in OutputsOf(engine, features) :
            predict(features, regime, horizon_days, outputs)

\* ---- detect_regime
\* indicator arguments: <<>> is None, <<v>> a value in whole points (VIX) or
\* whole basis points (credit spread)
VixArgs == {<<>>, <<18>>, <<25>>, <<45>>}
SpreadArgs == {<<>>, <<120>>, <<200>>, <<400>>}

RegimePriority(r) == CASE r = "crisis" -> 3 [] r = "elevated" -> 2
                       [] r = "steady_state" -> 1

\* lines 128-137: the VIX (in hundredths) alone, against the imported table;
\* the confidence in 1/60000
VixRegime(vix, thresholds) ==
    IF vix >= 100 * Get(thresholds, "crisis", 40)
    THEN [regime |-> "crisis", confidence |-> Min(60000, 10 * vix)]
    ELSE IF vix >= 100 * Get(thresholds, "elevated", 25)
    THEN [regime |-> "elevated", confidence |-> 40 * (vix - 2500)]
    ELSE [regime |-> "steady_state", confidence |-> 24 * (2500 - vix)]

\* lines 139-148: the credit spread (in hundredths) alone; confidence in 1/60000
SpreadRegime(credit_spread, thresholds) ==
    IF credit_spread >= 100 * Get(thresholds, "crisis", 400)
    THEN [regime |-> "crisis", confidence |-> Min(60000, credit_spread)]
    ELSE IF credit_spread >= 100 * Get(thresholds, "elevated", 200)
    THEN [regime |-> "elevated", confidence |-> 3 * (credit_spread - 20000)]
    ELSE [regime |-> "steady_state", confidence |-> 3 * (20000 - credit_spread)]

\* lines 150-160: worst case wins; the mean confidence rounded to 4 decimals
CombineRegimes(v, s) ==
    LET total == v.confidence + s.confidence
    IN  [ regime |-> IF RegimePriority(v.regime) >= RegimePriority(s.regime)
                     THEN v.regime ELSE s.regime,
          confidence |-> RoundHalfEven(total \div 12, total % 12, 12) ]

\* The body of detect_regime(vix, credit_spread): [outcome, exc, value, calls],
\* calls holding the two sub-classifications.
\* Line 120 imports VIX_THRESHOLDS and CREDIT_SPREAD_THRESHOLDS from
\* app.core.constants on every call; lines 123-160 run only if that import
\* succeeds (z1, z2: the generator's next draws, used for omitted indicators).
DetectRegimeOutcome(vix, credit_spread, z1, z2) ==
    IF ~CanImport({"VIX_THRESHOLDS", "CREDIT_SPREAD_THRESHOLDS"})
    THEN [outcome |-> "raised", exc |-> "ImportError", value |-> None,
          calls |-> <<>>]
    ELSE LET v == IF vix = <<>> THEN 1800 + 5 * z1 ELSE 100 * vix[1]
             c == IF credit_spread = <<>> THEN 12000 + 30 * z2
                  ELSE 100 * credit_spread[1]
             vix_sub == VixRegime(v, ConstantsModule.VIX_THRESHOLDS)
             spread_sub == SpreadRegime(c, ConstantsModule.CREDIT_SPREAD_THRESHOLDS)
         IN  [ outcome |-> "returned", exc |-> "",
               value |-> CombineRegimes(vix_sub, spread_sub),
               calls |-> [vix_regime |-> vix_sub.regime,
                          spread_regime |-> spread_sub.regime] ]

\* detect_regime(vix, credit_spread)
detect_regime(vix, credit_spread) ==
    \E z1 \in (IF vix = <<>> THEN {0 - 100, 100} ELSE {0}),
       z2 \in (IF credit_spread = <<>> THEN {0 - 100, 100} ELSE {0}) :
        LET out == DetectRegimeOutcome(vix, credit_spread, z1, z2)
            drawn == IF out.outcome = "raised" THEN 0
                     ELSE (IF vix = <<>> THEN 1 ELSE 0)
                          + (IF credit_spread = <<>> THEN 1 ELSE 0)
        IN  /\ Idle
            /\ start
            /\ ret' = Call("detect_regime",
                           [vix |-> vix, credit_spread |-> credit_spread],
                           out.outcome, out.exc, out.value, out.calls)
            /\ rng' = [rng EXCEPT !.drawn = @ + drawn]
            /\ UNCHANGED <<today, engine, importable, fits, demo_today>>

DetectRegime ==
    \E vix \in VixArgs, credit_spread \in SpreadArgs :
        detect_regime(vix, credit_spread)

\* ---- train_on_data
\* The transactions fall on `dates` distinct dates, numbered 1..dates in
\* calendar order (groupby sorts its keys).

\* _engineer_features: the index of the frame returned.  No rows for an empty
\* transactions frame; with 7 or more dates the rolling columns are NaN on the
\* first six and dropna() removes those rows.
_engineer_features(dates) ==
    IF dates = 0 THEN {}
    ELSE IF dates >= 7 THEN 7..dates
    ELSE 1..dates

\* lines 233-235 without the dropna(): the last date, whose shifted sum is
\* NaN, stays in the index
TargetIndex_keep_last(dates) == 1..dates

\* lines 233-235: the daily sums shifted by -1, NaN dropped: every date but
\* the last
TargetIndex(dates) == 1..(dates - 1)

\* train_on_data fitting the steady-state model before the row count is checked
train_on_data_fit_first(dates) ==
    LET e == Loaded(engine)
        features == _engineer_features(dates)
        common_dates == features \cap TargetIndex(dates)
        rows == Cardinality(common_dates)
        args == [dates |-> dates]
        trained == SteadyStateModel_train(e.steady_state_model, "engineered",
                                          {5, 50, 95}, fits + 1, importable,
                                          "none")
    IN  /\ Idle
        /\ start
        /\ fits < MaxFits
        /\ engine' = [e EXCEPT !.steady_state_model = trained.model]
        /\ fits' = IF importable THEN fits + 1 ELSE fits
        /\ ret' = IF features = {}
                  THEN Call("train_on_data", args, "returned", "",
                            [status |-> "insufficient_data"], <<>>)
                  ELSE IF rows < 30
                  THEN Call("train_on_data", args, "returned", "",
                            [status |-> "insufficient_data", rows |-> rows], <<>>)
                  ELSE Call("train_on_data", args, "returned", "",
                            [status |-> "trained", rows |-> rows,
                             metrics |-> trained.value], <<>>)
        /\ UNCHANGED <<today, rng, importable, demo_today>>

\* train_on_data(positions_df, transactions_df)
train_on_data(dates) ==
    LET e == Loaded(engine)
        features == _engineer_features(dates)
        common_dates == features \cap TargetIndex(dates)
        rows == Cardinality(common_dates)
        args == [dates |-> dates]
        trained == SteadyStateModel_train(e.steady_state_model, "engineered",
                                          {5, 50, 95}, fits + 1, importable,
                                          "none")
    IN  /\ Idle
        /\ start
        /\ IF features = {}
           THEN /\ ret' = Call("train_on_data", args, "returned", "",
                               [status |-> "insufficient_data"], <<>>)
                /\ engine' = e
                /\ fits' = fits
           ELSE IF rows < 30
           THEN /\ ret' = Call("train_on_data", args, "returned", "",
                               [status |-> "insufficient_data", rows |-> rows],
                               <<>>)
                /\ engine' = e
                /\ fits' = fits
           ELSE /\ fits < MaxFits
                /\ ret' = Call("train_on_data", args, "returned", "",
                               [status |-> "trained", rows |-> rows,
                                metrics |-> trained.value], <<>>)
                /\ engine' = [e EXCEPT !.steady_state_model = trained.model]
                /\ fits' = IF importable THEN fits + 1 ELSE fits
        /\ UNCHANGED <<today, rng, importable, demo_today>>

\* numbers of distinct transaction dates: none, fewer than the 7 of the
\* rolling window, just 7, and around the 37 that give 30 aligned rows
DateCounts == {0, 1, 6, 7} \cup (36..MaxDates)

TrainOnData == \E dates \in DateCounts : train_on_data(dates)

\* ---- SteadyStateModel.train called on the engine's model
\* quantile lists, in percent: the default and a shorter one
QuantileArgs == {{5, 50, 95}, {50}}

\* forecast_engine.steady_state_model.train(X, y, quantiles), X with the
\* column set `columns`, the data having the effect `fault` on the fit
train(columns, quantiles, fault) ==
    LET trained == SteadyStateModel_train(engine.steady_state_model, columns,
                                          quantiles, fits + 1, importable, fault)
    IN  /\ Idle
        /\ start
        /\ engine.is_loaded
        /\ fits < MaxFits
        /\ engine' = [engine EXCEPT !.steady_state_model = trained.model]
        /\ fits' = IF importable THEN fits + 1 ELSE fits
        /\ ret' = Call("train",
                       [columns |-> columns, quantiles |-> quantiles,
                        fault |-> fault],
                       trained.outcome, trained.exc, trained.value, <<>>)
        /\ UNCHANGED <<today, rng, importable, demo_today>>

\* a call whose fit raises is made with the default quantiles: it stores no
\* estimator, whatever the list
Train ==
    \E columns \in Columns, quantiles \in QuantileArgs :
        \E fault \in (IF quantiles = {5, 50, 95} THEN Faults ELSE {"none"}) :
            train(columns, quantiles, fault)

\* ---- CrisisModel.simulate_monte_carlo called on the engine's model
\* base_prediction arguments, in dollars
BaseArgs == {0 - 1000, 1000}

\* The sample `returns`, in thousandths.  Seed 42, sigma and n fix it in the
\* code; the model admits every sample over two values of the distribution's
\* support: lognormal variates are positive, t * volatility + 1 need not be.
LognormalReturns == {500, 2000}
TReturns == {0 - 500, 1500}

\* np.percentile(a, q) read at position q/100 * (n - 1) of `a` as it is
\* given, without sorting it
percentile_unsorted(a, q) ==
    LET pos == q * (Len(a) - 1)
        lo == (pos \div 100) + 1
        frac == pos % 100
    IN  IF frac = 0 THEN 100 * a[lo]
        ELSE 100 * a[lo] + frac * (a[lo + 1] - a[lo])

\* np.percentile(a, q), times 100: linear interpolation between the two order
\* statistics around position q/100 * (n - 1)
percentile(a, q) ==
    LET sorted == SortSeq(a, LAMBDA x, y : x < y)
        pos == q * (Len(a) - 1)
        lo == (pos \div 100) + 1
        frac == pos % 100
    IN  IF frac = 0 THEN 100 * sorted[lo]
        ELSE 100 * sorted[lo] + frac * (sorted[lo + 1] - sorted[lo])

\* the sum of a sequence
RECURSIVE Sum(_)
Sum(a) == IF a = <<>> THEN 0 ELSE Head(a) + Sum(Tail(a))

\* the dict simulate_monte_carlo returns for base_prediction (dollars) and the
\* sample: amounts in 1/100000 dollar, the mean as the exact sum / n.  std
\* and cvar_95 are not carried.
MonteCarloDict(base_prediction, returns) ==
    LET simulated == [i \in 1..Len(returns) |-> base_prediction * returns[i]]
    IN  [ mean |-> [num |-> 100 * Sum(simulated), den |-> Len(simulated)],
          p1 |-> percentile(simulated, 1),
          p5 |-> percentile(simulated, 5),
          p50 |-> percentile(simulated, 50),
          p95 |-> percentile(simulated, 95),
          p99 |-> percentile(simulated, 99),
          var_95 |-> 100000 * base_prediction - percentile(simulated, 5) ]

\* the samples the branch taken for `regime` can draw, n of them
SamplesOf(regime, n) ==
    IF regime = [kind |-> "Regime", value |-> "crisis"]
    THEN [1..n -> TReturns]
    ELSE [1..n -> LognormalReturns]

\* forecast_engine.crisis_model.simulate_monte_carlo(base_prediction, regime,
\* n_simulations); `scipy`: scipy imports (it does wherever xgboost does)
simulate_monte_carlo(base_prediction, regime, n_simulations, returns, scipy) ==
    LET args == [base_prediction |-> base_prediction, regime |-> regime,
                 n_simulations |-> n_simulations]
        t == regime = [kind |-> "Regime", value |-> "crisis"]
    IN  /\ Idle
        /\ start
        /\ engine.is_loaded
        /\ IF ~HasValueAttr(regime)
           THEN /\ ret' = Call("simulate_monte_carlo", args, "raised",
                               "AttributeError", None, <<>>)
                /\ rng' = Seeded(42, 0)
           ELSE IF t /\ ~scipy
           THEN /\ ret' = Call("simulate_monte_carlo", args, "raised",
                               "ImportError", None, <<>>)
                /\ rng' = Seeded(42, 0)
           ELSE /\ ret' = Call("simulate_monte_carlo", args, "returned", "",
                               MonteCarloDict(base_prediction, returns),
                               [returns |-> returns])
                \* a t variate takes a normal draw and a gamma variate, which
                \* takes at least one more
                /\ rng' = Seeded(42, IF t THEN 2 * n_simulations
                                     ELSE n_simulations)
        /\ UNCHANGED <<today, engine, importable, fits, demo_today>>

\* n_simulations arguments: the smallest and the largest
SimulationCounts == {1, MaxSims}

\* regime arguments: the Regime members and a plain str (no .value)
SimulationRegimes == {regime \in RegimeArgs : regime.kind \in {"Regime", "str"}}

SimulateMonteCarlo ==
    \E base_prediction \in BaseArgs, regime \in SimulationRegimes,
       n \in SimulationCounts :
        \E scipy \in (IF importable THEN {TRUE} ELSE BOOLEAN) :
            \E returns \in (IF HasValueAttr(regime)
                                /\ (regime.value = "crisis" => scipy)
                             THEN SamplesOf(regime, n) ELSE {<<>>}) :
                simulate_monte_carlo(base_prediction, regime, n, returns, scipy)

\* ---- services.forecast_service.ForecastService
\* app.core.constants
MIN_POSITIONS_FOR_FORECAST == 30

\* app.core.enums.ForecastStatus
ForecastStatus ==
    [ PENDING |-> "pending", PROCESSING |-> "processing",
      COMPLETED |-> "completed", FAILED |-> "failed" ]

\* Columns of table forecasts that are NOT NULL and have neither a default
\* nor a server default (models/forecast.py, alembic 001_initial_schema)
ForecastRequiredColumns ==
    {"organization_id", "forecast_date", "target_date", "predicted_net_flow_p50"}

\* The Forecast object of lines 89-99 on day `day`: the keyword arguments
\* given, every other attribute unset (None).  Of the columns carried here
\* the constructor call sets all but predicted_net_flow_p50 and error_message.
\* A column value is <<v>>, or <<>> for None.
Forecast(day) ==
    [ organization_id |-> <<"org">>,
      status |-> ForecastStatus.PROCESSING,
      forecast_date |-> <<day>>,
      target_date |-> <<day + 1>>,
      predicted_net_flow_p50 |-> <<>>,
      error_message |-> <<>> ]

\* session.flush() of a pending row: the INSERT, which the database rejects
\* (sqlalchemy.exc.IntegrityError) when a required column is NULL
flush(row) ==
    IF \E column \in ForecastRequiredColumns : row[column] = <<>>
    THEN [outcome |-> "raised", exc |-> "IntegrityError"]
    ELSE [outcome |-> "returned", exc |-> ""]

\* _validate_data_availability: the query is limited to the minimum, so
\* len(positions) is at most that; `available` snapshots match the filter
_validate_data_availability(available) ==
    LET positions == Min(available, MIN_POSITIONS_FOR_FORECAST)
    IN  IF positions < MIN_POSITIONS_FOR_FORECAST
        THEN [outcome |-> "raised", exc |-> "InsufficientDataError",
              message |-> "Minimum 30 position snapshots required"]
        ELSE [outcome |-> "returned", exc |-> "", message |-> ""]

\* _generate_prediction: the fixed prediction of lines 266-277 (p50 in cents)
_generate_prediction == [p50 |-> 2500000, model_name |-> "hybrid"]

\* lines 104-165, entered once the row is flushed: [outcome, exc, forecast,
\* committed], the Forecast object when the call ends and the row committed
generate_forecast_try(forecast, available) ==
    LET valid == _validate_data_availability(available)
        completed == [forecast EXCEPT
                         !.predicted_net_flow_p50 = <<_generate_prediction.p50>>,
                         !.status = ForecastStatus.COMPLETED]
        failed == [forecast EXCEPT
                      !.status = ForecastStatus.FAILED,
                      !.error_message = <<valid.message>>]
    IN  IF valid.outcome = "raised"
        THEN [outcome |-> "raised", exc |-> "ForecastError",
              forecast |-> failed, committed |-> failed]
        ELSE [outcome |-> "returned", exc |-> "",
              forecast |-> completed, committed |-> completed]

\* ForecastService(db).generate_forecast(organization_id, user_id) for an
\* organization with `available` position snapshots.  The cache lookup of
\* line 83 returns None (line 301).  The coroutine suspends only on its own
\* session's I/O and touches nothing but its own Forecast object, so it is
\* one step.
generate_forecast(available) ==
    LET forecast == Forecast(today)
        flushed == flush(forecast)
        try == generate_forecast_try(forecast, available)
        args == [available |-> available]
    IN  /\ Idle
        /\ ret' = IF flushed.outcome = "raised"
                  THEN Call("generate_forecast", args, "raised", flushed.exc,
                            None, [forecast |-> forecast, committed |-> None])
                  ELSE Call("generate_forecast", args, try.outcome, try.exc,
                            IF try.outcome = "returned" THEN try.forecast
                            ELSE None,
                            [forecast |-> try.forecast,
                             committed |-> try.committed])
        /\ UNCHANGED <<today, rng, engine, importable, fits, pending, caller,
                       demo_today>>

\* numbers of position snapshots of the organization: none, one short of the
\* minimum, the minimum
SnapshotCounts == {0, 29, 30}

GenerateForecast == \E available \in SnapshotCounts : generate_forecast(available)

\* ---- the calendar
\* midnight passes
next_day ==
    /\ Idle
    /\ today < MaxDay
    /\ today' = today + 1
    /\ demo_today' = None
    /\ UNCHANGED <<rng, engine, importable, fits, ret, pending, caller>>

\* the caller takes the result of the call (or its exception)
take_result ==
    /\ ~Idle
    /\ ret' = NoCall
    /\ caller' = None
    /\ UNCHANGED <<today, rng, engine, importable, fits, pending, demo_today>>

\* ---- the system
Init ==
    /\ today = 0
    /\ rng = [seed |-> 0 - 1, drawn |-> 0]
    /\ engine = ForecastEngine_init
    /\ importable \in BOOLEAN
    /\ fits = 0
    /\ ret = NoCall
    /\ pending = 0
    /\ caller = None
    /\ demo_today = None

Next ==
    \/ call_soon
    \/ load_models
    \/ Predict
    \/ DetectRegime
    \/ TrainOnData
    \/ Train
    \/ SimulateMonteCarlo
    \/ GenerateForecast
    \/ next_day
    \/ take_result

Spec == Init /\ [][Next]_vars

\* ================================================================ claims
Returned(op) == ret.op = op /\ ret.outcome = "returned"

RegimeMember(v) == [kind |-> "Regime", value |-> v]

\* both indicators were passed to the detect_regime call on record
IndicatorsGiven ==
    ret.op = "detect_regime" /\ ret.args.vix # <<>> /\ ret.args.credit_spread # <<>>

\* the documented sub-classifications (default thresholds of constants.py),
\* for indicators in whole points and whole basis points
VixClass(v) ==
    IF v >= ConstantsModule.VIX_CRISIS_MIN THEN "crisis"
    ELSE IF v >= ConstantsModule.VIX_ELEVATED_MIN THEN "elevated"
    ELSE "steady_state"

SpreadClass(c) ==
    IF c >= ConstantsModule.CREDIT_SPREAD_CRISIS_MIN THEN "crisis"
    ELSE IF c >= ConstantsModule.CREDIT_SPREAD_ELEVATED_MIN THEN "elevated"
    ELSE "steady_state"

\* C1: every Prediction that ForecastEngine.predict returns, for every regime
\* and every state of the sub-models, has p5 <= p50 <= p95.
C1_QuantilesOrdered ==
    Returned("predict") =>
        ret.value.p5 <= ret.value.p50 /\ ret.value.p50 <= ret.value.p95

\* C2: detect_regime returns a (Regime, confidence) pair and never raises,
\* whether each indicator is a number or omitted.
C2_DetectRegimeNeverRaises ==
    ret.op = "detect_regime" =>
        /\ ret.outcome = "returned"
        /\ ret.value.regime \in Regime
        /\ ret.value.confidence \in Int

\* C3: the regime detect_regime resolves has the higher severity rank of the
\* VIX sub-classification and the credit-spread sub-classification; so a VIX
\* at or above the crisis threshold resolves to CRISIS whatever the spread.
C3_WorstCaseWins ==
    IndicatorsGiven =>
        /\ ret.outcome = "returned"
        /\ RegimePriority(ret.value.regime) =
               Max(RegimePriority(VixClass(ret.args.vix[1])),
                   RegimePriority(SpreadClass(ret.args.credit_spread[1])))

\* C4: regime monotonicity: with the credit spread fixed, no smaller VIX
\* resolves to a higher severity rank than the VIX of the call, and with the
\* VIX fixed no smaller spread resolves to a higher rank than its spread.
C4_RegimeMonotone ==
    IndicatorsGiven =>
        /\ ret.outcome = "returned"
        /\ \A vix \in VixArgs \ {<<>>} :
               vix[1] <= ret.args.vix[1] =>
                   LET lower == DetectRegimeOutcome(vix, ret.args.credit_spread, 0, 0)
                   IN  /\ lower.outcome = "returned"
                       /\ RegimePriority(lower.value.regime)
                              <= RegimePriority(ret.value.regime)
        /\ \A spread \in SpreadArgs \ {<<>>} :
               spread[1] <= ret.args.credit_spread[1] =>
                   LET lower == DetectRegimeOutcome(ret.args.vix, spread, 0, 0)
                   IN  /\ lower.outcome = "returned"
                       /\ RegimePriority(lower.value.regime)
                              <= RegimePriority(ret.value.regime)

\* C5: detect_regime(vix=18.0, credit_spread=120.0) returns STEADY_STATE with
\* a confidence above 0.5, the confidence being the mean of the VIX
\* sub-confidence (1 - 18/25) and the spread sub-confidence (1 - 120/200).
C5_SteadyExample ==
    (ret.op = "detect_regime"
     /\ ret.args = [vix |-> <<18>>, credit_spread |-> <<120>>]) =>
        /\ ret.outcome = "returned"
        /\ ret.value.regime = "steady_state"
        /\ ret.value.confidence > 5000
        /\ 2 * ret.value.confidence = (10000 - 400 * 18) + (10000 - 50 * 120)

\* C6: crisis dominance: the p50 that CrisisModel.predict returns under
\* CRISIS is at most the p50 it returns under STEADY_STATE for the same base
\* prediction.
C6_CrisisDominance ==
    (Returned("predict") /\ ret.args.regime = RegimeMember("crisis")) =>
        ret.calls.crisis_pred.p50 <=
            CrisisModel_predict(engine.crisis_model, RegimeMember("steady_state"),
                                toordinal(today)).value.p50

\* the blended value of `key`, P_s[key] * w_s + P_c[key] * w_c, of the predict
\* call on record, as an exact rational number of cents
Linear(key) ==
    WeightedSum(ret.calls.steady_pred[key], ret.value.steady_state_weight,
                ret.calls.crisis_pred[key], ret.value.crisis_weight, Cent)

\* C7: blend linearity: the p5, p50 and p95 of the Prediction that predict
\* returns equal P_s*w_s + P_c*w_c rounded to 2 decimals, for the two
\* sub-model predictions and the weights of the call.
C7_BlendLinearity ==
    Returned("predict") =>
        \A key \in {"p5", "p50", "p95"} \cap DOMAIN ret.calls.steady_pred :
            ret.value[key] =
                RoundHalfEven(Linear(key).whole, Linear(key).num, Linear(key).den)

\* C7 witness: a returned blend of a trained steady-state prediction whose
\* exact p5 is not a whole number of cents, under weights that sum to 1
C7_Witness ==
    /\ Returned("predict")
    /\ ~ret.calls.steady_demo
    /\ ret.value.steady_state_weight + ret.value.crisis_weight = 100
    /\ Linear("p5").num # 0
    /\ ret.calls.steady_pred["p50"] # 0
    /\ ret.calls.crisis_pred["p50"] # 0

\* the documented weight table, in hundredths
WeightTable(v) ==
    CASE v = "steady_state" -> <<90, 10>>
      [] v = "elevated" -> <<60, 40>>
      [] v = "crisis" -> <<20, 80>>

\* C8: predict returns the weights of the table entry of the regime it was
\* called with, and for a regime value without a table entry it still returns
\* a Prediction, with weights (0.85, 0.15).
C8_WeightsReturned ==
    ret.op = "predict" =>
        /\ ret.outcome = "returned"
        /\ <<ret.value.steady_state_weight, ret.value.crisis_weight>> =
               IF ret.args.regime.kind = "Regime"
               THEN WeightTable(ret.args.regime.value)
               ELSE IF RegimeKey(ret.args.regime) = "no_entry"
               THEN <<85, 15>>
               ELSE WeightTable(ret.args.regime.value)

\* C9: weight normalisation: whichever of the four outcomes of
\* _get_regime_weights a predict call draws, the two weights sum to 1 and
\* each lies in [0, 1].
C9_WeightsNormalised ==
    ret.op = "predict" =>
        /\ ret.calls.steady_weight + ret.calls.crisis_weight = 100
        /\ ret.calls.steady_weight \in 0..100
        /\ ret.calls.crisis_weight \in 0..100

\* C9 witness: a predict call that drew the default entry
C9_Witness ==
    /\ Returned("predict")
    /\ RegimeKey(ret.args.regime) = "no_entry"
    /\ <<ret.calls.steady_weight, ret.calls.crisis_weight>> = <<85, 15>>
    /\ <<ret.value.steady_state_weight, ret.value.crisis_weight>> = <<85, 15>>

\* the aligned (feature, target) day-rows of a history of `dates` dates
AlignedRows(dates) ==
    Cardinality({d \in 1..(dates - 1) : dates < 7 \/ d >= 7})

\* C10: train_on_data never raises on short history: with n < 30 aligned
\* rows, no transactions at all included, it returns "insufficient_data"
\* together with rows = n; with n >= 30 it returns "trained" with rows = n.
C10_TrainStatusAndRows ==
    ret.op = "train_on_data" =>
        LET n == AlignedRows(ret.args.dates)
        IN  /\ ret.outcome = "returned"
            /\ ret.value.status =
                   IF n < 30 THEN "insufficient_data" ELSE "trained"
            /\ "rows" \in DOMAIN ret.value
            /\ ret.value.rows = n

\* the trained state of a steady-state model: its demo/trained flags, feature
\* names, scaler and per-quantile estimators
TrainedState(m) ==
    [ demo_mode |-> m.demo_mode, is_loaded |-> m.is_loaded,
      feature_names |-> m.feature_names, scaler |-> m.scaler,
      quantile_models |-> m.quantile_models ]

\* C11: a train_on_data call that ends with status "insufficient_data" leaves
\* the steady-state model's trained state (flags, feature names, scaler,
\* estimators) as it was before the call, for an untrained and for a trained
\* model; a model the call itself constructs is left as constructed.
C11_InsufficientDataKeepsModel ==
    [][ (ret'.op = "train_on_data" /\ ret.op # "train_on_data"
         /\ ret'.value.status = "insufficient_data")
        => TrainedState(engine'.steady_state_model)
               = TrainedState(Loaded(engine).steady_state_model) ]_vars

\* C11 witness: an insufficient_data answer from an engine whose steady-state
\* model had been trained before
C11_Witness ==
    /\ Returned("train_on_data")
    /\ ret.value.status = "insufficient_data"
    /\ ~engine.steady_state_model.demo_mode
    /\ engine.steady_state_model.scaler > 0

\* the keys of a complete Prediction
PredictionKeys ==
    {"p5", "p50", "p95", "inflow_p50", "outflow_p50", "steady_state_weight",
     "crisis_weight", "confidence", "model_name", "model_version"}

\* the predict call on record ran inference on a trained steady-state model
\* and that inference raised (the frame's columns are not the fitted ones,
\* or the scaler was never fitted)
InferenceRaised ==
    /\ ret.op = "predict"
    /\ engine.steady_state_model # None
    /\ ~engine.steady_state_model.demo_mode
    /\ engine.steady_state_model.is_loaded
    /\ ret.args.features # None
    /\ \/ ret.args.features.columns # engine.steady_state_model.feature_names
       \/ engine.steady_state_model.scaler < 0

\* C12: PredictionFallback: when inference on a trained steady-state model
\* raises, SteadyStateModel.predict returns the demo-mode prediction of the
\* day, and ForecastEngine.predict, called with a Regime member, raises
\* nothing and returns a complete Prediction.
C12_PredictionFallback ==
    InferenceRaised =>
        /\ ret.calls.steady_demo
        /\ ret.calls.steady_pred = _generate_realistic_prediction(toordinal(today))
        /\ ret.args.regime.kind = "Regime" =>
               /\ ret.outcome = "returned"
               /\ DOMAIN ret.value = PredictionKeys

\* C12 witness: a Prediction returned under a Regime member after the trained
\* model's inference raised
C12_Witness ==
    /\ InferenceRaised
    /\ Returned("predict")
    /\ ret.args.regime.kind = "Regime"
    /\ ret.calls.steady_demo

\* the model_name values of the Predictions that predict builds today from
\* trained inference (estimators for p5, p50 and p95), over the regimes and
\* the estimators' answers
TrainedModelNames ==
    { PredictionDict(
          _blend_predictions(
              TrainedInference([quantile_models |-> [q \in {5, 50, 95} |-> 1]],
                               outputs),
              CrisisModel_predict(CrisisModel_init, RegimeMember(r),
                                  toordinal(today)).value,
              _get_regime_weights(RegimeMember(r))[1],
              _get_regime_weights(RegimeMember(r))[2]),
          _get_regime_weights(RegimeMember(r))[1],
          _get_regime_weights(RegimeMember(r))[2]).model_name :
        r \in Regime, outputs \in [{5, 50, 95} -> EstimatorOutputs] }

\* C13: a Prediction whose steady-state values come from the demo-mode
\* generator (untrained model, absent features or inference fallback) never
\* carries a model_name that a Prediction from trained inference carries.
C13_DemoDistinguishable ==
    (Returned("predict") /\ ret.calls.steady_demo) =>
        ret.value.model_name \notin TrainedModelNames

\* C14: predict called with a malformed input, a negative horizon_days, fails
\* with a hard error instead of returning a Prediction.
C14_NegativeHorizonRejected ==
    (ret.op = "predict" /\ ret.args.horizon_days < 0) =>
        ret.outcome = "raised"

\* a call body runs in this step
CallStep(ops) == ret.op = "none" /\ ret'.op \in ops

\* C15: under any interleaving of load_models, predict and train_on_data
\* calls, callers that called before the first load completed included: the
\* engine never goes from loaded to unloaded; predict and train_on_data leave
\* it loaded; a load on a loaded engine changes nothing; and once loaded the
\* crisis model is never replaced and the steady-state model changes only by
\* a train or train_on_data call working on it in place (a completed one
\* leaves it fitted), so a predict on matching features after a training
\* consults the trained model.
C15_LoadOnce ==
    [][ /\ engine.is_loaded => engine'.is_loaded
        /\ CallStep({"predict", "train_on_data"}) => engine'.is_loaded
        /\ (CallStep({"load_models"}) /\ engine.is_loaded) => engine' = engine
        /\ engine.is_loaded =>
               /\ engine'.crisis_model = engine.crisis_model
               /\ engine'.steady_state_model # engine.steady_state_model =>
                      /\ CallStep({"train_on_data", "train"})
                      /\ fits' = fits + 1
                      /\ ret'.outcome = "returned" =>
                             /\ engine'.steady_state_model.scaler = fits'
                             /\ ~engine'.steady_state_model.demo_mode
        /\ (/\ CallStep({"predict"})
            /\ engine.is_loaded
            /\ ~engine.steady_state_model.demo_mode
            /\ engine.steady_state_model.scaler > 0
            /\ ret'.args.features # None
            /\ ret'.args.features.columns = engine.steady_state_model.feature_names)
               => ~ret'.calls.steady_demo ]_vars

\* C15 witness: a caller that called predict while the engine was still
\* unloaded runs after another caller has loaded and trained the models, and
\* its predict consults the trained steady-state model
C15_Witness ==
    /\ Returned("predict")
    /\ caller = [saw_loaded |-> FALSE]
    /\ ~ret.calls.steady_demo
    /\ engine.steady_state_model.scaler > 0

\* C16: a predict call changes no state shared across calls (engine fields,
\* sub-model fields, the process-wide random generator) other than the
\* load-once construction of the two models; detect_regime changes none.
C16_NoSharedStateChanged ==
    [][ /\ CallStep({"predict"}) =>
               /\ engine' = Loaded(engine)
               /\ rng' = rng
        /\ CallStep({"detect_regime"}) =>
               /\ engine' = engine
               /\ rng' = rng ]_vars

\* the last call fitted the steady-state model: a train call, or a
\* train_on_data call that answered "trained", with the ML packages present
Fitted ==
    /\ importable
    /\ \/ Returned("train")
       \/ Returned("train_on_data") /\ ret.value.status = "trained"

\* the column set and the quantile list of that fit
FittedColumns == IF ret.op = "train" THEN ret.args.columns ELSE "engineered"
FittedQuantiles == IF ret.op = "train" THEN ret.args.quantiles ELSE {5, 50, 95}

\* C17: re-training overwrites the trained state wholesale: after a train
\* call the stored feature names, scaler and per-quantile estimators are
\* exactly those this call fitted, and no estimator of an earlier call
\* survives, also when the quantile list differs from an earlier one.
C17_RetrainOverwrites ==
    Fitted =>
        LET m == engine.steady_state_model
        IN  /\ m.feature_names = FittedColumns
            /\ m.scaler = fits
            /\ DOMAIN m.quantile_models = FittedQuantiles
            /\ \A q \in DOMAIN m.quantile_models : m.quantile_models[q] = fits

\* C18: demo-mode determinism: a demo-mode steady-state prediction equals
\* the first one made on the same calendar date, whatever used the random
\* generator before it or between the two (the crisis model's reseeding,
\* simulate_monte_carlo, detect_regime).
C18_DemoDeterministic ==
    (ret.op = "predict" /\ ret.calls.steady_demo) =>
        ret.calls.steady_pred = demo_today

\* C18 witness: a second SteadyStateModel.predict(None) of the day, made
\* after the crisis model reseeded the generator and drew from it
C18_Witness ==
    /\ Returned("predict")
    /\ ret.args.features = None
    /\ ret.calls.steady_repeat
    /\ ret.calls.steady_pred = demo_today

\* C19: Monte Carlo percentile ordering: the dict simulate_monte_carlo
\* returns has p1 <= p5 <= p50 <= p95 <= p99, for every regime, every
\* n_simulations >= 1 and every base_prediction (positive or not).  (A call
\* that raises, as a CRISIS call does where scipy is not installed, returns
\* no dict.)
C19_PercentilesOrdered ==
    Returned("simulate_monte_carlo") =>
        /\ ret.value.p1 <= ret.value.p5
        /\ ret.value.p5 <= ret.value.p50
        /\ ret.value.p50 <= ret.value.p95
        /\ ret.value.p95 <= ret.value.p99

\* C19 witness: a simulation with a positive base whose sample came out of
\* order, and whose percentiles are interpolated and differ
C19_Witness ==
    /\ Returned("simulate_monte_carlo")
    /\ ret.args.base_prediction > 0
    /\ ret.args.n_simulations >= 2
    /\ ret.calls.returns[1] > ret.calls.returns[2]
    /\ ret.value.p1 < ret.value.p5
    /\ ret.value.p95 < ret.value.p99

\* C20: for every regime, the inflow_p50 CrisisModel.predict returns is not
\* greater than the base prediction's inflow_p50, and the outflow_p50 it
\* returns is not less than the base prediction's outflow_p50.
C20_InflowReducedOutflowIncreased ==
    (ret.op = "predict" /\ ret.args.regime.kind = "Regime") =>
        LET base_pred == _get_base_prediction(toordinal(today))
        IN  /\ ret.calls.crisis_pred.inflow_p50 <= base_pred.inflow_p50
            /\ ret.calls.crisis_pred.outflow_p50 >= base_pred.outflow_p50

\* C21: for every vix >= 0 and credit_spread >= 0 passed to detect_regime,
\* the call returns a confidence that lies in [0, 1].
C21_DetectConfidenceInUnitInterval ==
    (IndicatorsGiven /\ ret.args.vix[1] >= 0 /\ ret.args.credit_spread[1] >= 0) =>
        /\ ret.outcome = "returned"
        /\ ret.value.confidence >= 0
        /\ ret.value.confidence <= 10000

\* C22: detect_regime sub-classifies the credit spread s of the call as
\* CRISIS when s >= 200bp, ELEVATED when 150bp <= s < 200bp and STEADY_STATE
\* below 150bp, and the VIX v as CRISIS when v >= 40, ELEVATED when
\* 25 <= v < 40 and STEADY_STATE otherwise.
C22_SubClassification ==
    IndicatorsGiven =>
        /\ ret.outcome = "returned"
        /\ ret.calls.spread_regime =
               (IF ret.args.credit_spread[1] >= 200 THEN "crisis"
                ELSE IF ret.args.credit_spread[1] >= 150 THEN "elevated"
                ELSE "steady_state")
        /\ ret.calls.vix_regime =
               (IF ret.args.vix[1] >= 40 THEN "crisis"
                ELSE IF ret.args.vix[1] >= 25 THEN "elevated"
                ELSE "steady_state")

\* the confidence predict would return for the regime of the call on record
\* from a steady-state confidence s and a crisis base confidence c
BlendedConfidence(s, c) ==
    LET w == _get_regime_weights(ret.args.regime)
        zero == [p5 |-> 0, p50 |-> 0, p95 |-> 0]
        crisis_pred == ApplyShock(engine.crisis_model,
                                  zero @@ [confidence |-> c], ret.args.regime)
    IN  PredictionDict(
            _blend_predictions(zero @@ [confidence |-> s], crisis_pred, w[1], w[2]),
            w[1], w[2]).confidence

\* C23: the confidence of every Prediction that predict returns lies in
\* [0, 1]; and so does, for the regime of the call, the confidence blended
\* from the extreme confidences the two models can produce (steady-state:
\* 0.3 and 0.95, the clamps of _calculate_confidence, which enclose the demo
\* range; crisis base: 0.4 and 0.75).
C23_PredictConfidenceInUnitInterval ==
    Returned("predict") =>
        /\ ret.value.confidence >= 0
        /\ ret.value.confidence <= 10000
        /\ \A s \in {3000, 9500}, c \in {4000, 7500} :
               BlendedConfidence(s, c) \in 0..10000

\* C23 witness: a Prediction returned under CRISIS, where the crisis model's
\* confidence (base confidence above 0.6, halved) carries weight 0.8, blended
\* with the confidence of trained inference
C23_Witness ==
    /\ Returned("predict")
    /\ ret.args.regime = RegimeMember("crisis")
    /\ ~ret.calls.steady_demo
    /\ _get_base_prediction(toordinal(today)).confidence > 6000
    /\ 2 * ret.calls.crisis_pred.confidence
           = _get_base_prediction(toordinal(today)).confidence
    /\ ret.value.confidence > 0
    /\ ret.value.confidence < 10000

\* C24: generate_forecast raises InsufficientDataError to its caller when
\* the organization has fewer than MIN_POSITIONS_FOR_FORECAST (30) position
\* snapshots, and when it fails with enough snapshots it raises ForecastError.
C24_InsufficientDataErrorRaised ==
    ret.op = "generate_forecast" =>
        /\ ret.args.available < MIN_POSITIONS_FOR_FORECAST =>
               ret.outcome = "raised" /\ ret.exc = "InsufficientDataError"
        /\ (ret.args.available >= MIN_POSITIONS_FOR_FORECAST
            /\ ret.outcome = "raised") => ret.exc = "ForecastError"

\* C27: the Forecast record a generate_forecast call creates in status
\* PROCESSING ends the call COMPLETED, and is then the value returned, or
\* FAILED with error_message set, and then the call raises; no call returns
\* or raises while its record is still PROCESSING, and no call returns a
\* FAILED record.
C27_RecordLeavesProcessing ==
    ret.op = "generate_forecast" =>
        LET forecast == ret.calls.forecast
        IN  /\ forecast.status # ForecastStatus.PROCESSING
            /\ ret.outcome = "returned" =>
                   /\ forecast.status = ForecastStatus.COMPLETED
                   /\ ret.value = forecast
            /\ ret.outcome = "raised" =>
                   /\ forecast.status = ForecastStatus.FAILED
                   /\ forecast.error_message # <<>>

\* the steady-state model holds no estimator: no train call has completed a fit
Untrained(m) == DOMAIN m.quantile_models = {}

Blended ==
    _blend_predictions(ret.calls.steady_pred, ret.calls.crisis_pred,
                       ret.calls.steady_weight, ret.calls.crisis_weight)

\* C26: the blend step computes inflow_p50 (and outflow_p50) as the weighted
\* sum only when both the steady-state prediction and the crisis prediction
\* define the field; a field that one side lacks is not blended with a
\* substitute value for the missing side.
C26_ComponentsBlendedWhenBothDefined ==
    Returned("predict") =>
        \A key \in {"inflow_p50", "outflow_p50"} :
            key \in DOMAIN Blended =>
                /\ key \in DOMAIN ret.calls.steady_pred
                /\ key \in DOMAIN ret.calls.crisis_pred

\* C28: train_on_data returns status "trained" only if, when it returns, the
\* steady-state model is in the trained state (not demo mode) and holds an
\* estimator of this fit for each requested quantile, so that the next
\* predict with the engineered features uses trained inference.
C28_TrainedMeansTrained ==
    (Returned("train_on_data") /\ ret.value.status = "trained") =>
        LET m == engine.steady_state_model
        IN  /\ ~m.demo_mode
            /\ m.is_loaded
            /\ \A q \in {5, 50, 95} :
                   q \in DOMAIN m.quantile_models /\ m.quantile_models[q] = fits
            /\ ~SteadyStateModel_predict(
                    m, [class |-> "DataFrame", columns |-> "engineered"],
                    [q \in DOMAIN m.quantile_models |-> 0],
                    toordinal(today)).demo

\* C29: a SteadyStateModel.train call that does not complete successfully
\* (an exception while scaling or fitting, or the estimator library being
\* unavailable) leaves the model's state (trained/demo flags, feature names,
\* scaler, per-quantile estimators) as it was before the call.
C29_FailedTrainKeepsState ==
    [][ (/\ CallStep({"train"})
         /\ \/ ret'.outcome = "raised"
            \/ ret'.value = [status |-> "demo_mode"])
        => TrainedState(engine'.steady_state_model)
               = TrainedState(engine.steady_state_model) ]_vars

\* the aligned row count of C30 for a history of n distinct dates
ClaimedRows(n) == IF n >= 7 THEN n - 7 ELSE n - 1

\* the date whose net flow is the target of the feature row of date d:
\* groupby(...).sum().shift(-1) moves each date's sum to the date before it
TargetDate(d) == d + 1

\* C30: for transactions on N >= 1 distinct dates the aligned row count that
\* train_on_data compares against 30 is N - 7 when N >= 7 and N - 1 when
\* N < 7, so that it trains exactly when N >= 37; the aligned rows are the
\* dates from the 7th to the last but one, and the target of each is the
\* net flow of the next date present.
C30_AlignedRowCount ==
    (ret.op = "train_on_data" /\ ret.args.dates >= 1) =>
        LET N == ret.args.dates
            common_dates == _engineer_features(N) \cap TargetIndex(N)
        IN  /\ ret.outcome = "returned"
            /\ ret.value.rows = ClaimedRows(N)
            /\ Cardinality(common_dates) = ClaimedRows(N)
            /\ ret.value.status = "trained" <=> N >= 37
            /\ \A d \in common_dates :
                   /\ N >= 7 => d >= 7
                   /\ TargetDate(d) \in 1..N
                   /\ ~\E between \in 1..N : d < between /\ between < TargetDate(d)

\* C30 witness: 37 dates give 30 aligned rows and a training, the first
\* aligned row being the 7th date and the last the 36th
C30_Witness ==
    /\ Returned("train_on_data")
    /\ ret.args.dates = 37
    /\ ret.value.rows = 30
    /\ ret.value.status = "trained"
    /\ _engineer_features(37) \cap TargetIndex(37) = 7..36
====
